---- MODULE Spec2Model ----
(***************************************************************************)
(* Model of the two Lambda request handlers of the NPC dialogue guidance:  *)
(*   components/rag_api/runtime/index.py   (retrieval-augmented answers)   *)
(*   components/text_api/runtime/index.py  (answers without retrieval)     *)
(*                                                                         *)
(* Every request is a sequential pipeline.  Each remote call (secret       *)
(* store, index HEAD probe, embedding model, k-NN search, text model,      *)
(* speech synthesis) is one action: it issues the call, draws the remote   *)
(* party's reply from the set of replies that party can give, and runs the *)
(* handler's local code up to the next remote call.  An exception nobody   *)
(* catches ends the request in pc = "crashed".                             *)
(***************************************************************************)
EXTENDS Integers, Sequences, FiniteSets, TLC

VARIABLES pc, api, body, creds, vector, hits, context, prompt, response,
          speech_info, result, calls

vars == <<pc, api, body, creds, vector, hits, context, prompt, response,
          speech_info, result, calls>>

(***************************************************************************)
(* Bounds of the input domains.                                            *)
(***************************************************************************)
NumQuestions == 1
NumPassages == 2
NumAnswers == 1
MaxScore == 2

(***************************************************************************)
(* Python values.  Every value carries a tag t; a text is a sequence of    *)
(* tokens, a token is a literal piece of a template or a word of a         *)
(* question, passage or answer.                                            *)
(***************************************************************************)
Lit(s) == [lit |-> s]
Word(kind, i) == [w |-> kind, i |-> i]

PyStr(s) == [t |-> "str", s |-> s]
PyNone == [t |-> "none"]
PyTuple(v) == [t |-> "tuple", v |-> v]
PyList(v) == [t |-> "list", v |-> v]
PyDict(d) == [t |-> "dict", d |-> d]
Exc(type, message) == [t |-> "exception", type |-> type, message |-> message]

\* A call either returns a value or raises.
Ret(v) == [raised |-> FALSE, v |-> v]
Raise(e) == [raised |-> TRUE, e |-> e]

\* `if x:` on the values the handlers test: None is false, a non-empty dict true.
Truthy(x) == IF x.t = "none" THEN FALSE
             ELSE IF x.t = "dict" THEN DOMAIN x.d # {}
             ELSE TRUE

\* json.dumps on a dict of strings, nulls and dicts; json_loads is what the
\* client reads back.
json_dumps(b) == [t |-> "json", v |-> b]
json_loads(s) == s.v

(***************************************************************************)
(* Input domains.                                                          *)
(***************************************************************************)
Passages == {<<Word("passage", i)>> : i \in 1..NumPassages}
Questions == {<<Word("question", i)>> : i \in 1..NumQuestions}
                \cup {<<Word("passage", 1)>>}
Answers == {<<Word("answer", i)>> : i \in 1..NumAnswers}

\* Request bodies: JSON objects with any subset of the three keys.
BodyKeys == {"question", "voice_id", "voice_engine"}
BodyValues(key) == IF key = "question" THEN {PyStr(q) : q \in Questions}
                   ELSE IF key = "voice_id" THEN {PyStr(<<Lit("Joanna")>>)}
                   ELSE {PyStr(<<Lit("standard")>>)}
Bodies == UNION {{b \in [K -> UNION {BodyValues(key) : key \in K}] :
                     \A key \in K : b[key] \in BodyValues(key)} :
                 K \in SUBSET BodyKeys}

\* dict.get(key, default)
Get(d, key, default) == IF key \in DOMAIN d THEN d[key] ELSE default

(***************************************************************************)
(* Module-level configuration (read-only, fixed at process start).         *)
(***************************************************************************)
OPENSEARCH_SECRET == PyStr(<<Lit("opensearch-secret")>>)

(***************************************************************************)
(* build_response, identical in both handlers.                             *)
(***************************************************************************)
\* Mutant: an error body is sent with an HTTP error status.
build_response_status(b) ==
    PyDict([statusCode |-> IF "status" \in DOMAIN b THEN 400 ELSE 200,
            headers |-> [ContentType |-> "application/json"],
            body |-> json_dumps(b)])

build_response(b) ==
    PyDict([statusCode |-> 200,
            headers |-> [ContentType |-> "application/json"],
            body |-> json_dumps(b)])

ErrorBody(message) == [status |-> "error", message |-> message]

(***************************************************************************)
(* validate_inputs: the handlers differ in the message only.               *)
(***************************************************************************)
\* Mutant: the validation result is never returned.
rag_validate_inputs_norequired(b) == PyNone

rag_validate_inputs(b) ==
    IF "question" \notin DOMAIN b
    THEN build_response(ErrorBody("question missing in request payload"))
    ELSE PyNone

text_validate_inputs(b) ==
    IF "question" \notin DOMAIN b
    THEN build_response(ErrorBody("question missing in payload"))
    ELSE PyNone

validate_inputs(a, b) ==
    IF a = "rag" THEN rag_validate_inputs(b) ELSE text_validate_inputs(b)

(***************************************************************************)
(* Bookkeeping shared by the actions.                                      *)
(***************************************************************************)
Reqs == DOMAIN pc

\* One entry of the log of remote calls: the service, the argument sent,
\* the reply and how the call ended: "ok", "bad" (returned, but not with
\* what the caller needs) or "raised".
Call(svc, arg, reply, out) == [svc |-> svc, arg |-> arg, reply |-> reply, out |-> out]

Log(r, svc, arg, reply, out) ==
    calls' = [calls EXCEPT ![r] = Append(@, Call(svc, arg, reply, out))]

Goto(r, label) == pc' = [pc EXCEPT ![r] = label]

\* An exception that leaves lambda_handler: the invocation fails, no response
\* object is returned.
Crash(r, e) ==
    /\ pc' = [pc EXCEPT ![r] = "crashed"]
    /\ result' = [result EXCEPT ![r] = e]

Return(r, resp) ==
    /\ pc' = [pc EXCEPT ![r] = "done"]
    /\ result' = [result EXCEPT ![r] = resp]

(***************************************************************************)
(* lambda_handler, first part: parse the body, validate, read the inputs.  *)
(***************************************************************************)
\* Mutant: the question is kept in a module-level variable that the
\* requests share.
question_global(r) ==
    body[CHOOSE x \in DOMAIN body : "question" \in DOMAIN body[x]]["question"]

question(r) == body[r]["question"]
voice_id(r) == Get(body[r], "voice_id", PyStr(<<Lit("Ruth")>>))
voice_engine(r) == Get(body[r], "voice_engine", PyStr(<<Lit("neural")>>))

lambda_handler(r) ==
    /\ pc[r] = "idle"
    /\ \E a \in {"rag", "text"}, b \in Bodies :
          /\ api' = [api EXCEPT ![r] = a]
          /\ body' = [body EXCEPT ![r] = b]
          /\ LET validate_response == validate_inputs(a, b)
             IN IF Truthy(validate_response)
                THEN Return(r, validate_response)
                ELSE IF "question" \notin DOMAIN b
                THEN Crash(r, Exc("KeyError", "question"))
                ELSE /\ Goto(r, IF a = "rag" THEN "get_credentials"
                                             ELSE "invoke_model")
                     /\ UNCHANGED result
    /\ UNCHANGED <<creds, vector, hits, context, prompt, response,
                   speech_info, calls>>

(***************************************************************************)
(* rag_api: get_credentials.                                               *)
(***************************************************************************)
\* What the secret store can answer: the secret, a secret without the
\* expected fields, or a rejection (botocore ClientError).
SecretReplies ==
    { Ret([USERNAME |-> PyStr(<<Lit("admin")>>),
           PASSWORD |-> PyStr(<<Lit("password")>>)]),
      Ret([USERNAME |-> PyStr(<<Lit("admin")>>)]),
      Raise(Exc("ClientError", "Secrets Manager can't find the specified secret.")),
      Raise(Exc("ClientError", "Access denied")) }

get_credentials(reply) ==
    IF reply.raised
    THEN IF reply.e.type = "ClientError"
         THEN Ret(build_response(ErrorBody(reply.e.message)))
         ELSE Raise(reply.e)
    ELSE LET json_body == reply.v
         IN IF "USERNAME" \notin DOMAIN json_body
            THEN Raise(Exc("KeyError", "USERNAME"))
            ELSE IF "PASSWORD" \notin DOMAIN json_body
            THEN Raise(Exc("KeyError", "PASSWORD"))
            ELSE Ret(PyTuple(<<json_body["USERNAME"], json_body["PASSWORD"]>>))

\* `username, password = x`: x is iterated and must yield exactly two items;
\* iterating a dict yields its keys.
PyLen(x) == IF x.t = "dict" THEN Cardinality(DOMAIN x.d)
            ELSE IF x.t \in {"tuple", "list"} THEN Len(x.v)
            ELSE 0

Unpack2(x) ==
    IF x.t \notin {"dict", "tuple", "list"}
    THEN Raise(Exc("TypeError", "cannot unpack non-iterable object"))
    ELSE IF PyLen(x) > 2
    THEN Raise(Exc("ValueError", "too many values to unpack (expected 2)"))
    ELSE IF PyLen(x) < 2
    THEN Raise(Exc("ValueError", "not enough values to unpack (expected 2)"))
    ELSE IF x.t = "dict"
    THEN Ret([username |-> PyStr(<<Lit("key")>>), password |-> PyStr(<<Lit("key")>>)])
    ELSE Ret([username |-> x.v[1], password |-> x.v[2]])

NoCreds == [username |-> PyNone, password |-> PyNone]

\* get_prediction, lines 199-203.
GetCredentials(r) ==
    /\ pc[r] = "get_credentials"
    /\ \E reply \in SecretReplies :
          LET got == get_credentials(reply)
              out == IF reply.raised THEN "raised"
                     ELSE IF got.raised THEN "bad" ELSE "ok"
          IN /\ Log(r, "secret", OPENSEARCH_SECRET, reply, out)
             /\ IF got.raised
                THEN Crash(r, got.e) /\ UNCHANGED creds
                ELSE LET pair == Unpack2(got.v)
                     IN IF pair.raised
                        THEN Crash(r, pair.e) /\ UNCHANGED creds
                        ELSE /\ creds' = [creds EXCEPT ![r] = pair.v]
                             /\ Goto(r, "verify_index")
                             /\ UNCHANGED result
    /\ UNCHANGED <<api, body, vector, hits, context, prompt, response,
                   speech_info>>

(***************************************************************************)
(* rag_api: verify_index.                                                  *)
(***************************************************************************)
\* What the HEAD probe of the index can give: a status code, or the request
\* raising (timeout after 10 s, connection error).
HeadReplies ==
    { Ret([status_code |-> 200]),
      Ret([status_code |-> 404]),
      Ret([status_code |-> 503]),
      Raise(Exc("ConnectTimeout", "timed out")) }

NotHydrated ==
    "The vector store is not yet hydrated, and cannot be queried for context. Please contact your System Administrator to ingest RAG data."

\* Mutant: the status code of the probe is not looked at.
verify_index_nostatus(reply) ==
    IF reply.raised THEN Raise(reply.e) ELSE Ret(PyNone)

verify_index(reply) ==
    IF reply.raised THEN Raise(reply.e)
    ELSE IF reply.v.status_code # 200
    THEN Ret(build_response(ErrorBody(NotHydrated)))
    ELSE Ret(PyNone)

\* get_prediction, lines 205-209.  A truthy verify_response is returned to
\* lambda_handler, which goes on with it as the answer.
VerifyIndex(r) ==
    /\ pc[r] = "verify_index"
    /\ \E reply \in HeadReplies :
          LET got == verify_index(reply)
              out == IF reply.raised THEN "raised"
                     ELSE IF reply.v.status_code = 200 THEN "ok" ELSE "bad"
          IN /\ Log(r, "head", PyDict(creds[r]), reply, out)
             /\ IF got.raised
                THEN Crash(r, got.e) /\ UNCHANGED response
                ELSE LET verify_response == got.v
                     IN IF Truthy(verify_response)
                        THEN /\ response' = [response EXCEPT ![r] = verify_response]
                             /\ Goto(r, "synthesize_sound")
                             /\ UNCHANGED result
                        ELSE /\ Goto(r, "get_embedding")
                             /\ UNCHANGED <<response, result>>
    /\ UNCHANGED <<api, body, creds, vector, hits, context, prompt,
                   speech_info>>

(***************************************************************************)
(* rag_api: get_embedding.                                                 *)
(***************************************************************************)
\* What the embedding model can answer: a body with the vector, a body
\* without the `embedding` field, a rejection (ClientError), or another
\* failure of the transport.
EmbeddingReplies ==
    { Ret([embedding |-> PyList(<<1, 0>>)]),
      Ret([message |-> PyStr(<<Lit("unexpected")>>)]),
      Raise(Exc("ClientError", "Model access denied")),
      Raise(Exc("ReadTimeoutError", "read timeout")) }

get_embedding(reply) ==
    IF reply.raised
    THEN IF reply.e.type = "ClientError"
         THEN Ret(build_response(ErrorBody(reply.e.message)))
         ELSE Raise(reply.e)
    ELSE Ret(Get(reply.v, "embedding", PyNone))

\* get_hits, lines 176-187: the argument of the search query is evaluated
\* first; whatever get_embedding returned becomes the query vector.
GetEmbedding(r) ==
    /\ pc[r] = "get_embedding"
    /\ \E reply \in EmbeddingReplies :
          LET got == get_embedding(reply)
              out == IF reply.raised THEN "raised"
                     ELSE IF "embedding" \in DOMAIN reply.v THEN "ok" ELSE "bad"
          IN /\ Log(r, "embedding", question(r), reply, out)
             /\ IF got.raised
                THEN Crash(r, got.e) /\ UNCHANGED vector
                ELSE /\ vector' = [vector EXCEPT ![r] = got.v]
                     /\ Goto(r, "get_hits")
                     /\ UNCHANGED result
    /\ UNCHANGED <<api, body, creds, hits, context, prompt, response,
                   speech_info>>

(***************************************************************************)
(* rag_api: get_hits and the rest of get_prediction up to the model call.  *)
(***************************************************************************)
k == 3

\* Mutant: one result more than k is asked for.
search_query_more(v) == [t |-> "query", size |-> k + 1, vector |-> v, k |-> k]

search_query(v) == [t |-> "query", size |-> k, vector |-> v, k |-> k]

\* A hit: `_score` and `_source`; the source is the ingested document and
\* may lack a field.
Sources == {("file_name" :> PyStr(<<Lit("doc")>>)) @@ ("passage" :> PyStr(p)) :
               p \in Passages}
           \cup {("file_name" :> PyStr(<<Lit("doc")>>))}
Hit(score, source) == ("_score" :> score) @@ ("_source" :> source)
AllHits == {Hit(sc, src) : sc \in 1..MaxScore, src \in Sources}

\* The query has no sort clause: the store returns at most `size` hits in
\* descending order of score.
Descending(hs) == \A i \in 1..(Len(hs) - 1) : hs[i]["_score"] >= hs[i + 1]["_score"]
HitLists == UNION {{hs \in [1..n -> AllHits] : Descending(hs)} : n \in 0..k}

\* What the search POST can give: a body with hits, an error body without
\* `hits` (the only answer to a query whose vector is not a list of
\* numbers), or the request raising.
SearchReplies(q) ==
    { Ret([error |-> PyStr(<<Lit("search_phase_execution_exception")>>)]),
      Raise(Exc("ReadTimeout", "timed out")) }
    \cup (IF q.vector.t = "list"
          THEN {Ret([hits |-> [hits |-> hs]]) : hs \in HitLists}
          ELSE {})

get_hits(reply) ==
    IF reply.raised THEN Raise(reply.e)
    ELSE IF "hits" \notin DOMAIN reply.v THEN Raise(Exc("KeyError", "hits"))
    ELSE Ret(reply.v.hits.hits)

\* Lines 215-216: every hit is formatted for the log.
LogHits(hs) ==
    IF \E i \in 1..Len(hs) : "file_name" \notin DOMAIN hs[i]["_source"]
    THEN Raise(Exc("KeyError", "file_name"))
    ELSE IF \E i \in 1..Len(hs) : "passage" \notin DOMAIN hs[i]["_source"]
    THEN Raise(Exc("KeyError", "passage"))
    ELSE Ret(PyNone)

\* Mutant: the last hit is taken for the first.
SelectContext_last(hs) ==
    IF Len(hs) = 0 THEN Raise(Exc("IndexError", "list index out of range"))
    ELSE IF "passage" \notin DOMAIN hs[Len(hs)]["_source"]
    THEN Raise(Exc("KeyError", "passage"))
    ELSE Ret(hs[Len(hs)]["_source"]["passage"])

\* Line 219: context = hits[0]['_source']['passage'].
SelectContext(hs) ==
    IF Len(hs) = 0 THEN Raise(Exc("IndexError", "list index out of range"))
    ELSE IF "passage" \notin DOMAIN hs[1]["_source"]
    THEN Raise(Exc("KeyError", "passage"))
    ELSE Ret(hs[1]["_source"]["passage"])

\* Mutant: the reference block holds the question, the question is left out.
prompt_template_noquestion(ctx, q) ==
    PyStr(<<Lit("Human:"), Lit("persona"), Lit("<reference>")>>
          \o q.s
          \o <<Lit("</reference>"), Lit("Question:")>>
          \o <<Lit("Assistant:")>>)

\* Lines 220-226: the prompt template with the context and the question.
prompt_template(ctx, q) ==
    PyStr(<<Lit("Human:"), Lit("persona"), Lit("<reference>")>>
          \o ctx.s
          \o <<Lit("</reference>"), Lit("Question:")>>
          \o q.s
          \o <<Lit("Assistant:")>>)

GetHits(r) ==
    /\ pc[r] = "get_hits"
    /\ LET q == search_query(vector[r])
       IN \E reply \in SearchReplies(q) :
             LET got == get_hits(reply)
                 out == IF reply.raised THEN "raised"
                        ELSE IF got.raised THEN "bad" ELSE "ok"
             IN /\ Log(r, "search", q, reply, out)
                /\ IF got.raised
                   THEN Crash(r, got.e) /\ UNCHANGED <<hits, context, prompt>>
                   ELSE /\ hits' = [hits EXCEPT ![r] = got.v]
                        /\ LET logged == LogHits(got.v)
                               ctx == SelectContext(got.v)
                           IN IF logged.raised
                              THEN Crash(r, logged.e) /\ UNCHANGED <<context, prompt>>
                              ELSE IF ctx.raised
                              THEN Crash(r, ctx.e) /\ UNCHANGED <<context, prompt>>
                              ELSE /\ context' = [context EXCEPT ![r] = ctx.v]
                                   /\ prompt' = [prompt EXCEPT ![r] =
                                                    prompt_template(ctx.v, question(r))]
                                   /\ Goto(r, "invoke_model")
                                   /\ UNCHANGED result
    /\ UNCHANGED <<api, body, creds, vector, response, speech_info>>

(***************************************************************************)
(* The text-generation call of both handlers.                              *)
(***************************************************************************)
\* What the text model can answer: the legacy body with `completion`, the
\* messages body with `content[0].text`, a messages body with no content
\* block, or the invocation raising.
ModelReplies ==
    {Ret([completion |-> PyStr(a)]) : a \in Answers}
    \cup {Ret([content |-> <<[type |-> "text", text |-> PyStr(a)]>>]) : a \in Answers}
    \cup { Ret([content |-> <<>>]),
           Raise(Exc("ClientError", "Throttled")) }

\* rag_api get_prediction, lines 227-242.
rag_answer(reply) ==
    IF reply.raised THEN Raise(reply.e)
    ELSE Ret(Get(reply.v, "completion", PyNone))

\* Mutant: the second content block is read instead of the first.
text_answer_second(reply) ==
    IF reply.raised THEN Raise(reply.e)
    ELSE IF "content" \notin DOMAIN reply.v THEN Raise(Exc("KeyError", "content"))
    ELSE IF Len(reply.v.content) < 2
    THEN Raise(Exc("IndexError", "list index out of range"))
    ELSE IF "text" \notin DOMAIN reply.v.content[2] THEN Raise(Exc("KeyError", "text"))
    ELSE Ret(reply.v.content[2].text)

\* text_api get_prediction, lines 113-136.
text_answer(reply) ==
    IF reply.raised THEN Raise(reply.e)
    ELSE IF "content" \notin DOMAIN reply.v THEN Raise(Exc("KeyError", "content"))
    ELSE IF Len(reply.v.content) = 0
    THEN Raise(Exc("IndexError", "list index out of range"))
    ELSE IF "text" \notin DOMAIN reply.v.content[1] THEN Raise(Exc("KeyError", "text"))
    ELSE Ret(reply.v.content[1].text)

\* text_api: the single user message.
text_prompt(q) ==
    PyStr(<<Lit("instructions"), Lit("Question:")>> \o q.s)

InvokeModel(r) ==
    /\ pc[r] = "invoke_model"
    /\ \E reply \in ModelReplies :
          LET sent == IF api[r] = "rag" THEN prompt[r] ELSE text_prompt(question(r))
              got == IF api[r] = "rag" THEN rag_answer(reply) ELSE text_answer(reply)
              out == IF reply.raised THEN "raised"
                     ELSE IF got.raised THEN "bad"
                     ELSE IF got.v.t = "str" THEN "ok" ELSE "bad"
          IN /\ Log(r, "generate", sent, reply, out)
             /\ prompt' = [prompt EXCEPT ![r] = sent]
             /\ IF got.raised
                THEN Crash(r, got.e) /\ UNCHANGED response
                ELSE /\ response' = [response EXCEPT ![r] = got.v]
                     /\ Goto(r, "synthesize_sound")
                     /\ UNCHANGED result
    /\ UNCHANGED <<api, body, creds, vector, hits, context, speech_info>>

(***************************************************************************)
(* synthesize_speech, identical in both handlers.                          *)
(***************************************************************************)
\* base64.b64encode: three bytes become four sextets, the tail is padded
\* with the sextet 64 ('=').
RECURSIVE b64encode(_)
b64encode(b) ==
    IF Len(b) = 0 THEN <<>>
    ELSE IF Len(b) = 1
    THEN <<b[1] \div 4, (b[1] % 4) * 16, 64, 64>>
    ELSE IF Len(b) = 2
    THEN <<b[1] \div 4, (b[1] % 4) * 16 + b[2] \div 16, (b[2] % 16) * 4, 64>>
    ELSE <<b[1] \div 4, (b[1] % 4) * 16 + b[2] \div 16,
           (b[2] % 16) * 4 + b[3] \div 64, b[3] % 64>>
         \o b64encode(SubSeq(b, 4, Len(b)))

\* .decode("utf-8") of the encoded bytes: a text of one character per sextet.
decode(sx) == PyStr([i \in 1..Len(sx) |-> [b64 |-> sx[i]]])

Streams == {<<77>>, <<1, 2, 255, 16>>}

\* What the speech service can answer.  The client library validates the
\* parameters before sending: a Text that is not a string raises there.
PollyReplies(text) ==
    IF text.t # "str"
    THEN {Raise(Exc("ParamValidationError", "Invalid type for parameter Text"))}
    ELSE {Ret([AudioStream |-> Ret(b)]) : b \in Streams}
         \cup { Ret([AudioStream |-> Raise(Exc("ReadTimeoutError", "read timeout"))]),
                Raise(Exc("ClientError", "Rate exceeded")) }

exception_str(channel, e) ==
    PyStr(<<Lit(channel), Lit("Exception:"), Lit(e.type), Lit("Message:"), Lit(e.message)>>)

\* Mutant: a failing channel keeps the status but not the error text, and
\* a failed read leaves a response behind.
synthesize_channel_noerror(info, channel, name, reply) ==
    LET status == channel \o "_status"
    IN IF reply.raised THEN (status :> "error") @@ info
       ELSE LET audio_stream == reply.v.AudioStream
            IN IF audio_stream.raised
               THEN ((status :> "error") @@ info)
                    @@ ((channel \o "_response") :> decode(<<>>))
               ELSE ((status :> "ok") @@ info)
                    @@ ((channel \o "_response") :>
                           decode(b64encode(audio_stream.v)))

\* Mutant: a failure while reading the stream leaves the status "ok".
synthesize_channel_readok(info, channel, name, reply) ==
    LET status == channel \o "_status"
        failed(e) == ((status :> "error") @@ info)
                     @@ ((channel \o "_error") :> exception_str(name, e))
    IN IF reply.raised THEN failed(reply.e)
       ELSE LET audio_stream == reply.v.AudioStream
                marked == (status :> "ok") @@ info
            IN IF audio_stream.raised
               THEN marked @@ ((channel \o "_error") :> exception_str(name, audio_stream.e))
               ELSE marked @@ ((channel \o "_response") :>
                                  decode(b64encode(audio_stream.v)))

\* One try/except block of synthesize_speech; channel is "sound" or
\* "viseme", name its word in the logged message.
synthesize_channel(info, channel, name, reply) ==
    LET status == channel \o "_status"
        failed(e) == ((status :> "error") @@ info)
                     @@ ((channel \o "_error") :> exception_str(name, e))
    IN IF reply.raised THEN failed(reply.e)
       ELSE IF "AudioStream" \notin DOMAIN reply.v
       THEN failed(Exc("KeyError", "AudioStream"))
       ELSE LET audio_stream == reply.v.AudioStream
                marked == (status :> "ok") @@ info
            IN IF audio_stream.raised
               THEN ((status :> "error") @@ marked)
                    @@ ((channel \o "_error") :> exception_str(name, audio_stream.e))
               ELSE marked @@ ((channel \o "_response") :>
                                  decode(b64encode(audio_stream.v)))

\* Mutant: the question is synthesized instead of the answer.
polly_request_question(format, r) ==
    [t |-> "polly", OutputFormat |-> format, Text |-> question(r),
     VoiceId |-> voice_id(r), Engine |-> voice_engine(r)]

polly_request(format, r) ==
    [t |-> "polly", OutputFormat |-> format, Text |-> response[r],
     VoiceId |-> voice_id(r), Engine |-> voice_engine(r)]

PollyOut(reply) == IF reply.raised THEN "raised"
                   ELSE IF reply.v.AudioStream.raised THEN "raised" ELSE "ok"

\* lambda_handler line 45 and synthesize_speech lines 60-76.
SynthesizeSound(r) ==
    /\ pc[r] = "synthesize_sound"
    /\ \E reply \in PollyReplies(response[r]) :
          /\ Log(r, "sound", polly_request("pcm", r), reply, PollyOut(reply))
          /\ speech_info' = [speech_info EXCEPT ![r] =
                                synthesize_channel(<<>>, "sound", "Audio", reply)]
    /\ Goto(r, "synthesize_viseme")
    /\ UNCHANGED <<api, body, creds, vector, hits, context, prompt, response,
                   result>>

\* synthesize_speech lines 78-95 and lambda_handler lines 49-54.
SynthesizeViseme(r) ==
    /\ pc[r] = "synthesize_viseme"
    /\ \E reply \in PollyReplies(response[r]) :
          LET info == synthesize_channel(speech_info[r], "viseme", "Viseme", reply)
          IN /\ Log(r, "viseme", polly_request("json", r), reply, PollyOut(reply))
             /\ speech_info' = [speech_info EXCEPT ![r] = info]
             /\ Return(r, build_response([response |-> response[r],
                                          speech_info |-> info]))
    /\ UNCHANGED <<api, body, creds, vector, hits, context, prompt, response>>

(***************************************************************************)
(* The specification: one request per execution environment at a time.     *)
(***************************************************************************)
Unset == [t |-> "unset"]

InitFor(rs) ==
    /\ pc = [r \in rs |-> "idle"]
    /\ api = [r \in rs |-> "none"]
    /\ body = [r \in rs |-> <<>>]
    /\ creds = [r \in rs |-> NoCreds]
    /\ vector = [r \in rs |-> Unset]
    /\ hits = [r \in rs |-> <<>>]
    /\ context = [r \in rs |-> Unset]
    /\ prompt = [r \in rs |-> Unset]
    /\ response = [r \in rs |-> Unset]
    /\ speech_info = [r \in rs |-> <<>>]
    /\ result = [r \in rs |-> Unset]
    /\ calls = [r \in rs |-> <<>>]

Init == InitFor({1})

Next ==
    \/ \E r \in Reqs : lambda_handler(r)
    \/ \E r \in Reqs : GetCredentials(r)
    \/ \E r \in Reqs : VerifyIndex(r)
    \/ \E r \in Reqs : GetEmbedding(r)
    \/ \E r \in Reqs : GetHits(r)
    \/ \E r \in Reqs : InvokeModel(r)
    \/ \E r \in Reqs : SynthesizeSound(r)
    \/ \E r \in Reqs : SynthesizeViseme(r)

Spec == Init /\ [][Next]_vars

(***************************************************************************)
(* Observations on a request, used by the properties.                      *)
(***************************************************************************)
Terminal(r) == pc[r] \in {"done", "crashed"}

CallsOf(r, svc) == {i \in 1..Len(calls[r]) : calls[r][i].svc = svc}
Called(r, svc) == CallsOf(r, svc) # {}
Ended(r, svc, outs) == \E i \in CallsOf(r, svc) : calls[r][i].out \in outs

\* The JSON body of the response object a finished request returned.
ResponseBody(r) == json_loads(result[r].d.body)

\* The body is {"status": "error", "message": ...} and nothing else.
ErrorShape(r) ==
    /\ pc[r] = "done"
    /\ result[r].t = "dict"
    /\ DOMAIN ResponseBody(r) = {"status", "message"}
    /\ ResponseBody(r).status = "error"

\* The body is the success payload {"response": ..., "speech_info": ...}.
SuccessShape(r) ==
    /\ pc[r] = "done"
    /\ result[r].t = "dict"
    /\ DOMAIN ResponseBody(r) = {"response", "speech_info"}

(***************************************************************************)
(* C1: in both handlers a request whose body lacks `question` is answered  *)
(* with the validation error shape and makes no remote call at all.        *)
(***************************************************************************)
C1_MissingQuestionRejected ==
    \A r \in Reqs :
       (pc[r] # "idle" /\ "question" \notin DOMAIN body[r]) =>
          /\ ErrorShape(r)
          /\ calls[r] = <<>>

C1_Witness ==
    \E r \in Reqs :
       /\ pc[r] = "done"
       /\ "question" \notin DOMAIN body[r]
       /\ "voice_id" \in DOMAIN body[r]

(***************************************************************************)
(* C2: the embedding call and the search POST are issued only after the    *)
(* HEAD probe of the same request returned 200; a request whose probe      *)
(* returned another status or raised never issues either.                  *)
(***************************************************************************)
C2_RetrievalOnlyAfterIndexVerified ==
    \A r \in Reqs :
       /\ \A j \in CallsOf(r, "embedding") \cup CallsOf(r, "search") :
             \E i \in CallsOf(r, "head") :
                /\ i < j
                /\ ~calls[r][i].reply.raised
                /\ calls[r][i].reply.v.status_code = 200
       /\ Ended(r, "head", {"bad", "raised"}) =>
             ~Called(r, "embedding") /\ ~Called(r, "search")

C2_Witness ==
    \E r \in Reqs :
       /\ Ended(r, "head", {"ok"})
       /\ Called(r, "embedding")
       /\ Called(r, "search")

\* The other half of C2's case: a finished request whose probe failed.
C2_WitnessProbeFailed ==
    \E r \in Reqs : Terminal(r) /\ Ended(r, "head", {"bad"})

(***************************************************************************)
(* C3: when the index availability check fails, the response of the RAG    *)
(* handler is the error shape with the not-yet-hydrated message, not a     *)
(* success payload.  (Stated as claimed; the handler violates it.)         *)
(***************************************************************************)
C3_NotHydratedErrorReturned ==
    \A r \in Reqs :
       (pc[r] = "done" /\ Ended(r, "head", {"bad"})) =>
          /\ ErrorShape(r)
          /\ ResponseBody(r).message = NotHydrated

(***************************************************************************)
(* C4: in the RAG pipeline a failed stage short-circuits the request: no   *)
(* later stage is invoked after a stage has failed; in particular no       *)
(* search and no text generation after a failed embedding invocation.      *)
(* (Stated as claimed; the handler violates it.)                           *)
(***************************************************************************)
Stages == {"secret", "head", "embedding", "search", "generate"}

\* A stage has failed when its remote call raised, or when the probe
\* returned a status other than 200.
StageFailed(c) == c.out = "raised" \/ (c.svc = "head" /\ c.out = "bad")

C4_FailureShortCircuits ==
    \A r \in Reqs :
       \A i \in 1..Len(calls[r]) :
          (api[r] = "rag" /\ calls[r][i].svc \in Stages /\ StageFailed(calls[r][i])) =>
             \A j \in (i + 1)..Len(calls[r]) : calls[r][j].svc \notin Stages

(***************************************************************************)
(* C5: when the secret store rejects the lookup, the RAG request ends at   *)
(* once with a structured error response carrying the service message,     *)
(* with no retry and no further remote call.  (Stated as claimed; the      *)
(* handler violates it.)                                                   *)
(***************************************************************************)
C5_CredentialErrorStructured ==
    \A r \in Reqs :
       (Terminal(r) /\ Ended(r, "secret", {"raised"})) =>
          /\ ErrorShape(r)
          /\ ResponseBody(r).message = calls[r][1].reply.e.message
          /\ Len(calls[r]) = 1

(***************************************************************************)
(* C6: when the search returns zero hits, the RAG pipeline returns a       *)
(* structured error, never indexes into the empty list and does not invoke *)
(* the text model.  (Stated as claimed; the handler violates it.)          *)
(***************************************************************************)
C6_EmptyHitsStructuredError ==
    \A r \in Reqs :
       (Terminal(r) /\ Ended(r, "search", {"ok"}) /\ hits[r] = <<>>) =>
          /\ ErrorShape(r)
          /\ ~Called(r, "generate")

(***************************************************************************)
(* C7: a failing speech channel never costs the answer: when generation    *)
(* succeeded and the audio and/or the viseme call raised, the handler      *)
(* still returns a body without `status`, with `response` equal to the     *)
(* generated answer and with the failing channel's status "error".         *)
(***************************************************************************)
\* The answer text carried by the model's reply, as each handler reads it.
Generated(r) ==
    LET reply == calls[r][CHOOSE i \in CallsOf(r, "generate") : TRUE].reply
    IN IF api[r] = "rag" THEN reply.v.completion ELSE reply.v.content[1].text

ChannelFailed(r, channel) == Ended(r, channel, {"raised"})

C7_SpeechFailureKeepsAnswer ==
    \A r \in Reqs :
       Ended(r, "generate", {"ok"}) =>
          /\ pc[r] # "crashed"
          /\ (pc[r] = "done" /\ (ChannelFailed(r, "sound") \/ ChannelFailed(r, "viseme"))) =>
                /\ SuccessShape(r)
                /\ ResponseBody(r).response = Generated(r)
                /\ ChannelFailed(r, "sound") =>
                      ResponseBody(r).speech_info["sound_status"] = "error"
                /\ ChannelFailed(r, "viseme") =>
                      ResponseBody(r).speech_info["viseme_status"] = "error"

C7_Witness ==
    \E r \in Reqs :
       /\ pc[r] = "done"
       /\ Ended(r, "generate", {"ok"})
       /\ ChannelFailed(r, "sound")
       /\ ChannelFailed(r, "viseme")
       \* the audio call returned and reading its stream raised
       /\ ~calls[r][Len(calls[r]) - 1].reply.raised

(***************************************************************************)
(* C8: when the text model invocation fails or its body lacks the          *)
(* completion field, the request ends with a structured error response,    *)
(* not an unhandled failure or a success payload, and speech synthesis is  *)
(* not invoked.  (Stated as claimed; both handlers violate it.)            *)
(***************************************************************************)
C8_GenerationErrorStructured ==
    \A r \in Reqs :
       (Terminal(r) /\ Ended(r, "generate", {"bad", "raised"})) =>
          /\ ErrorShape(r)
          /\ ~Called(r, "sound")
          /\ ~Called(r, "viseme")

(***************************************************************************)
(* C9: for a non-empty search result the selected context is the passage   *)
(* of the hit with the highest `_score` of the returned hits, the earliest *)
(* such hit when scores tie.                                               *)
(***************************************************************************)
\* The earliest hit among those of highest score.
TopHit(hs) ==
    CHOOSE i \in 1..Len(hs) :
       /\ \A j \in 1..Len(hs) : hs[j]["_score"] <= hs[i]["_score"]
       /\ \A j \in 1..(i - 1) : hs[j]["_score"] < hs[i]["_score"]

C9_ContextIsHighestScore ==
    \A r \in Reqs :
       context[r] # Unset =>
          /\ hits[r] # <<>>
          /\ context[r] = hits[r][TopHit(hits[r])]["_source"]["passage"]

C9_Witness ==
    \E r \in Reqs :
       /\ context[r] # Unset
       /\ Len(hits[r]) = k
       /\ hits[r][1]["_score"] = hits[r][2]["_score"]
       /\ hits[r][2]["_score"] > hits[r][3]["_score"]
       /\ hits[r][1]["_source"] # hits[r][2]["_source"]
       /\ hits[r][1]["_source"] # hits[r][3]["_source"]

(***************************************************************************)
(* C10: the prompt sent to the text model by the RAG pipeline holds        *)
(* exactly one context passage, the passage of hits[0], and the question   *)
(* of the request verbatim; no other hit's passage is in its context.      *)
(***************************************************************************)
First(s, tok) == CHOOSE i \in 1..Len(s) : s[i] = tok /\ \A j \in 1..(i - 1) : s[j] # tok
Last(s, tok) == CHOOSE i \in 1..Len(s) : s[i] = tok /\ \A j \in (i + 1)..Len(s) : s[j] # tok
Has(s, tok) == \E i \in 1..Len(s) : s[i] = tok

\* What the prompt holds between <reference> and </reference>, and between
\* "Question:" and the closing "Assistant:".
ReferenceBlock(s) ==
    SubSeq(s, First(s, Lit("<reference>")) + 1, Last(s, Lit("</reference>")) - 1)
QuestionBlock(s) ==
    SubSeq(s, Last(s, Lit("</reference>")) + 2, Len(s) - 1)

WellFormedPrompt(s) ==
    /\ Has(s, Lit("<reference>"))
    /\ Has(s, Lit("</reference>"))
    /\ First(s, Lit("<reference>")) < Last(s, Lit("</reference>"))
    /\ Last(s, Lit("</reference>")) + 1 <= Len(s) - 1
    /\ s[Last(s, Lit("</reference>")) + 1] = Lit("Question:")
    /\ s[Len(s)] = Lit("Assistant:")
    \* outside the two blocks the prompt is fixed text
    /\ \A i \in 1..Len(s) :
          (i <= First(s, Lit("<reference>")) \/ i = Len(s)) => "lit" \in DOMAIN s[i]

C10_PromptHasTopPassageAndQuestion ==
    \A r \in Reqs :
       \A i \in CallsOf(r, "generate") :
          api[r] = "rag" =>
             LET sent == calls[r][i].arg.s
             IN /\ WellFormedPrompt(sent)
                /\ hits[r] # <<>>
                /\ ReferenceBlock(sent) = hits[r][1]["_source"]["passage"].s
                /\ QuestionBlock(sent) = body[r]["question"].s

C10_Witness ==
    \E r \in Reqs :
       /\ api[r] = "rag"
       /\ pc[r] = "done"
       /\ Ended(r, "generate", {"ok"})
       /\ Len(hits[r]) >= 2
       /\ hits[r][2]["_source"]["passage"] # hits[r][1]["_source"]["passage"]
       /\ body[r]["question"] = hits[r][2]["_source"]["passage"]

(***************************************************************************)
(* C11: a RAG request passes START, CREDENTIALS_RESOLVED, INDEX_VERIFIED,  *)
(* CONTEXT_RETRIEVED, PROMPT_BUILT, ANSWER_GENERATED, DONE in that order   *)
(* without skipping one, and ends in exactly one of DONE and ERROR.        *)
(* (Stated as claimed; the handler violates it.)                           *)
(***************************************************************************)
PipelineOrder ==
    <<"START", "CREDENTIALS_RESOLVED", "INDEX_VERIFIED", "CONTEXT_RETRIEVED",
      "PROMPT_BUILT", "ANSWER_GENERATED", "DONE">>

\* get_prediction has been entered.
Started(r) == api[r] = "rag" /\ (Called(r, "secret") \/ pc[r] = "get_credentials")

\* The states of the pipeline a request has passed, read off its variables.
Passed(r) ==
    {m \in {PipelineOrder[i] : i \in 1..Len(PipelineOrder)} :
        \/ m = "START" /\ Started(r)
        \/ m = "CREDENTIALS_RESOLVED" /\ creds[r] # NoCreds
        \/ m = "INDEX_VERIFIED" /\ Ended(r, "head", {"ok"})
        \/ m = "CONTEXT_RETRIEVED" /\ context[r] # Unset
        \/ m = "PROMPT_BUILT" /\ prompt[r] # Unset
        \/ m = "ANSWER_GENERATED" /\ Ended(r, "generate", {"ok"})
        \/ m = "DONE" /\ pc[r] = "done"}

C11_PipelineStatesInOrder ==
    \A r \in Reqs :
       Started(r) =>
          \A i \in 1..Len(PipelineOrder) :
             PipelineOrder[i] \in Passed(r) =>
                \A j \in 1..(i - 1) : PipelineOrder[j] \in Passed(r)

(***************************************************************************)
(* The handlers as functions of the request and of the replies to its own  *)
(* remote calls, in the order the calls are made: what a request does      *)
(* when it runs alone.                                                     *)
(***************************************************************************)
Outcome(p, res, sent) == [pc |-> p, result |-> res, sent |-> sent]
Sending(svc, arg) == [svc |-> svc, arg |-> arg]

\* The replies so far do not finish the request.
Pending(sent) == Outcome("pending", Unset, sent)

\* lambda_handler lines 45-54 with synthesize_speech; the reply to the audio
\* call is rs[n].
RunSpeech(b, answer, rs, n, sent) ==
    LET request(format) ==
           [t |-> "polly", OutputFormat |-> format, Text |-> answer,
            VoiceId |-> Get(b, "voice_id", PyStr(<<Lit("Ruth")>>)),
            Engine |-> Get(b, "voice_engine", PyStr(<<Lit("neural")>>))]
        s1 == Append(sent, Sending("sound", request("pcm")))
        s2 == Append(s1, Sending("viseme", request("json")))
        sound == synthesize_channel(<<>>, "sound", "Audio", rs[n])
        both == synthesize_channel(sound, "viseme", "Viseme", rs[n + 1])
    IN IF Len(rs) < n THEN Pending(sent)
       ELSE IF Len(rs) < n + 1 THEN Pending(s1)
       ELSE Outcome("done",
                    build_response([response |-> answer, speech_info |-> both]),
                    s2)

\* rag_api get_prediction lines 198-242.
RunRag(b, rs) ==
    LET q == b["question"]
        c1 == <<Sending("secret", OPENSEARCH_SECRET)>>
        got1 == get_credentials(rs[1])
        pair == Unpack2(got1.v)
        c2 == Append(c1, Sending("head", PyDict(pair.v)))
        got2 == verify_index(rs[2])
        c3 == Append(c2, Sending("embedding", q))
        got3 == get_embedding(rs[3])
        c4 == Append(c3, Sending("search", search_query(got3.v)))
        got4 == get_hits(rs[4])
        logged == LogHits(got4.v)
        ctx == SelectContext(got4.v)
        c5 == Append(c4, Sending("generate", prompt_template(ctx.v, q)))
        got5 == rag_answer(rs[5])
    IN IF Len(rs) < 1 THEN Pending(<<>>)
       ELSE IF got1.raised THEN Outcome("crashed", got1.e, c1)
       ELSE IF pair.raised THEN Outcome("crashed", pair.e, c1)
       ELSE IF Len(rs) < 2 THEN Pending(c1)
       ELSE IF got2.raised THEN Outcome("crashed", got2.e, c2)
       ELSE IF Truthy(got2.v) THEN RunSpeech(b, got2.v, rs, 3, c2)
       ELSE IF Len(rs) < 3 THEN Pending(c2)
       ELSE IF got3.raised THEN Outcome("crashed", got3.e, c3)
       ELSE IF Len(rs) < 4 THEN Pending(c3)
       ELSE IF got4.raised THEN Outcome("crashed", got4.e, c4)
       ELSE IF logged.raised THEN Outcome("crashed", logged.e, c4)
       ELSE IF ctx.raised THEN Outcome("crashed", ctx.e, c4)
       ELSE IF Len(rs) < 5 THEN Pending(c4)
       ELSE IF got5.raised THEN Outcome("crashed", got5.e, c5)
       ELSE RunSpeech(b, got5.v, rs, 6, c5)

\* text_api get_prediction lines 111-136.
RunText(b, rs) ==
    LET c1 == <<Sending("generate", text_prompt(b["question"]))>>
        got1 == text_answer(rs[1])
    IN IF Len(rs) < 1 THEN Pending(<<>>)
       ELSE IF got1.raised THEN Outcome("crashed", got1.e, c1)
       ELSE RunSpeech(b, got1.v, rs, 2, c1)

\* lambda_handler lines 30-44.
RunAlone(a, b, rs) ==
    LET validate_response == validate_inputs(a, b)
    IN IF Truthy(validate_response) THEN Outcome("done", validate_response, <<>>)
       ELSE IF "question" \notin DOMAIN b
       THEN Outcome("crashed", Exc("KeyError", "question"), <<>>)
       ELSE IF a = "rag" THEN RunRag(b, rs) ELSE RunText(b, rs)

\* The replies a request has received and the calls it has sent, in order.
Replies(r) == [i \in 1..Len(calls[r]) |-> calls[r][i].reply]
Sent(r) == [i \in 1..Len(calls[r]) |-> Sending(calls[r][i].svc, calls[r][i].arg)]

\* Request r is where, and has sent and returned what, it would alone.
AsAlone(r) ==
    LET alone == RunAlone(api[r], body[r], Replies(r))
    IN /\ alone.sent = Sent(r)
       /\ IF Terminal(r)
          THEN alone.pc = pc[r] /\ alone.result = result[r]
          ELSE alone.pc = "pending"

AllAsAlone == \A r \in Reqs : pc[r] # "idle" => AsAlone(r)

(***************************************************************************)
(* Two requests in flight at once, their steps interleaved in any order.   *)
(* The inputs are a part of those of Spec: bodies with no voice keys,      *)
(* search replies of at most one hit, one audio stream, one rejection by   *)
(* the secret store and one failing status of the probe.                   *)
(***************************************************************************)
ConcReplies ==
    (SecretReplies \ {Raise(Exc("ClientError", "Access denied"))})
    \cup (HeadReplies \ {Ret([status_code |-> 503])})
    \cup EmbeddingReplies \cup ModelReplies
    \cup {reply \in SearchReplies(search_query(PyList(<<1, 0>>))) :
             (~reply.raised /\ "hits" \in DOMAIN reply.v) =>
                Len(reply.v.hits.hits) <= 1}
    \cup PollyReplies(PyNone)
    \cup {reply \in PollyReplies(PyStr(<<>>)) :
             (~reply.raised /\ ~reply.v.AudioStream.raised) =>
                reply.v.AudioStream.v = <<77>>}

ConcInput(r) ==
    /\ DOMAIN body[r] \subseteq {"question"}
    /\ \A i \in 1..Len(calls[r]) : calls[r][i].reply \in ConcReplies

NextConc ==
    \/ \E r \in Reqs : lambda_handler(r) /\ ConcInput(r)'
    \/ \E r \in Reqs : GetCredentials(r) /\ ConcInput(r)'
    \/ \E r \in Reqs : VerifyIndex(r) /\ ConcInput(r)'
    \/ \E r \in Reqs : GetEmbedding(r) /\ ConcInput(r)'
    \/ \E r \in Reqs : GetHits(r) /\ ConcInput(r)'
    \/ \E r \in Reqs : InvokeModel(r) /\ ConcInput(r)'
    \/ \E r \in Reqs : SynthesizeSound(r) /\ ConcInput(r)'
    \/ \E r \in Reqs : SynthesizeViseme(r) /\ ConcInput(r)'

SpecConc == InitFor({1, 2}) /\ [][NextConc]_vars

(***************************************************************************)
(* C12: concurrent requests are isolated.  Under every interleaving each   *)
(* request makes its own credential fetch, embedding call and model        *)
(* invocation, sends and returns exactly what it would when run alone      *)
(* with the same input and the same replies, and a step of one request     *)
(* writes nothing of another.                                              *)
(***************************************************************************)
\* All that the handler holds for request r.
StateOf(r) ==
    <<pc[r], api[r], body[r], creds[r], vector[r], hits[r], context[r],
      prompt[r], response[r], speech_info[r], result[r], calls[r]>>

\* At most one request moves, the others keep everything.
NoCrossWrite ==
    \A r1, r2 \in Reqs :
       (r1 # r2 /\ StateOf(r1)' # StateOf(r1)) => StateOf(r2)' = StateOf(r2)

OwnCalls(r) ==
    (api[r] = "rag" /\ Called(r, "generate")) =>
       /\ Called(r, "secret")
       /\ Called(r, "embedding")
       /\ calls[r][CHOOSE i \in CallsOf(r, "embedding") : TRUE].arg = body[r]["question"]

C12_RequestsIsolated ==
    /\ [](AllAsAlone /\ \A r \in Reqs : OwnCalls(r))
    /\ [][NoCrossWrite]_vars

C12_Witness ==
    \E r1, r2 \in Reqs :
       /\ r1 # r2
       /\ api[r1] = "rag" /\ api[r2] = "rag"
       /\ pc[r1] = "done" /\ pc[r2] = "synthesize_viseme"
       /\ Ended(r1, "generate", {"ok"}) /\ Ended(r2, "generate", {"ok"})
       /\ body[r1]["question"] # body[r2]["question"]
       /\ hits[r1] # hits[r2]

(***************************************************************************)
(* C13: on every successful request of either handler the `response`      *)
(* field of the body is the completion text of the model, unchanged, and   *)
(* the text given to the audio and to the viseme synthesis call is that    *)
(* same text.                                                              *)
(***************************************************************************)
SpeechCalls(r) == CallsOf(r, "sound") \cup CallsOf(r, "viseme")

C13_AnswerPassedUnchanged ==
    \A r \in Reqs :
       Ended(r, "generate", {"ok"}) =>
          /\ \A i \in SpeechCalls(r) : calls[r][i].arg.Text = Generated(r)
          /\ pc[r] = "done" =>
                /\ SuccessShape(r)
                /\ ResponseBody(r).response = Generated(r)
                /\ Called(r, "sound")
                /\ Called(r, "viseme")

C13_Witness ==
    \E r \in Reqs :
       /\ api[r] = "text"
       /\ pc[r] = "done"
       /\ Ended(r, "generate", {"ok"})
       /\ Ended(r, "sound", {"ok"})
       /\ Ended(r, "viseme", {"ok"})

(***************************************************************************)
(* C14: the text_api handler answers without retrieval: it never calls the *)
(* secret store, the index probe, the embedding model or the search; for a *)
(* valid request it invokes the text model exactly once and then returns   *)
(* the payload with `response` and `speech_info`.                          *)
(***************************************************************************)
NoRetrieval(r) ==
    \A svc \in {"secret", "head", "embedding", "search"} : ~Called(r, svc)

ValidRequest(r) == pc[r] # "idle" /\ "question" \in DOMAIN body[r]

\* The model's reply carries content[0].text.
HasText(reply) ==
    /\ ~reply.raised
    /\ "content" \in DOMAIN reply.v
    /\ Len(reply.v.content) >= 1
    /\ "text" \in DOMAIN reply.v.content[1]

ChannelOk(info, channel) ==
    /\ (channel \o "_status") \in DOMAIN info
    /\ info[channel \o "_status"] = "ok"
    /\ (channel \o "_response") \in DOMAIN info
    /\ (channel \o "_error") \notin DOMAIN info

ChannelError(info, channel) ==
    /\ (channel \o "_status") \in DOMAIN info
    /\ info[channel \o "_status"] = "error"
    /\ (channel \o "_error") \in DOMAIN info
    /\ (channel \o "_response") \notin DOMAIN info

ChannelReported(info, channel) ==
    /\ ChannelOk(info, channel) \/ ChannelError(info, channel)
    /\ ~(ChannelOk(info, channel) /\ ChannelError(info, channel))

C15_ChannelsIndependent ==
    \A r \in Reqs :
       Called(r, "sound") =>
          \* the audio call never ends the request, the viseme call follows
          /\ pc[r] \in {"synthesize_viseme", "done"}
          /\ ChannelReported(speech_info[r], "sound")
          /\ ChannelOk(speech_info[r], "sound") <=> Ended(r, "sound", {"ok"})
          /\ pc[r] = "done" =>
                /\ Called(r, "viseme")
                /\ SuccessShape(r)
                /\ ResponseBody(r).speech_info = speech_info[r]
                /\ ChannelReported(speech_info[r], "viseme")
                /\ ChannelOk(speech_info[r], "viseme") <=> Ended(r, "viseme", {"ok"})

C15_Witness ==
    \E r \in Reqs :
       /\ pc[r] = "done"
       /\ Called(r, "viseme")
       \* the audio call returned and reading its stream raised
       /\ ~calls[r][Len(calls[r]) - 1].reply.raised
       /\ ChannelError(speech_info[r], "sound")
       /\ ChannelOk(speech_info[r], "viseme")

(***************************************************************************)
(* C16: only the top hit influences the outcome of a RAG request: two      *)
(* search results with the same first hit, however the later hits differ   *)
(* (number, scores, file names, passages, missing fields), give the same   *)
(* prompt and the same response.  (Stated as claimed; the handler          *)
(* violates it.)                                                           *)
(***************************************************************************)
\* The replies of request r, the search result cut down to its first hit.
TopOnlyReplies(r) ==
    [i \in 1..Len(calls[r]) |->
        IF calls[r][i].svc = "search"
        THEN Ret([hits |-> [hits |-> <<hits[r][1]>>]])
        ELSE calls[r][i].reply]

\* The last argument sent to the service, or Unset.
SentTo(sent, svc) ==
    IF \E i \in 1..Len(sent) : sent[i].svc = svc
    THEN sent[CHOOSE i \in 1..Len(sent) : sent[i].svc = svc].arg
    ELSE Unset

C16_OnlyTopHitMatters ==
    \A r \in Reqs :
       (api[r] = "rag" /\ Terminal(r) /\ Ended(r, "search", {"ok"}) /\ hits[r] # <<>>) =>
          LET top == RunAlone(api[r], body[r], TopOnlyReplies(r))
          IN /\ top.pc = pc[r]
             /\ top.result = result[r]
             /\ SentTo(top.sent, "generate") = SentTo(Sent(r), "generate")

(***************************************************************************)
(* C17: within one RAG request every remote stage is invoked at most once  *)
(* and never retried: one secret lookup, one HEAD probe, one embedding     *)
(* call, one search POST asking for exactly 3 results, one text-generation *)
(* call, and one speech call per channel.                                  *)
(***************************************************************************)
Services == Stages \cup {"sound", "viseme"}

C17_EveryStageAtMostOnce ==
    \A r \in Reqs :
       api[r] = "rag" =>
          /\ \A svc \in Services : Cardinality(CallsOf(r, svc)) <= 1
          /\ \A i \in 1..Len(calls[r]) : calls[r][i].svc \in Services
          /\ \A i \in CallsOf(r, "search") :
                calls[r][i].arg.size = 3 /\ calls[r][i].arg.k = 3

C17_Witness ==
    \E r \in Reqs :
       /\ api[r] = "rag"
       /\ pc[r] = "done"
       /\ \A svc \in Services : Cardinality(CallsOf(r, svc)) = 1
       /\ Len(hits[r]) = 3

(***************************************************************************)
(* C18: in the RAG handler synthesize_speech is invoked only after the     *)
(* text model returned an answer in the same request, and its text is      *)
(* always that answer string, never an error response object.  (Stated as  *)
(* claimed; the handler violates it.)                                      *)
(***************************************************************************)
C18_SpeechOnlyOnAnswer ==
    \A r \in Reqs :
       \A i \in SpeechCalls(r) :
          api[r] = "rag" =>
             /\ Ended(r, "generate", {"ok"})
             /\ calls[r][i].arg.Text.t = "str"
             /\ calls[r][i].arg.Text = Generated(r)

(***************************************************************************)
(* C19: every response object either handler returns, success or error,    *)
(* is the one build_response makes: statusCode 200 and Content-Type        *)
(* application/json; an error differs from a success by the `status`       *)
(* field of the body only, never by the HTTP status code.                  *)
(***************************************************************************)
C19_AlwaysStatus200 ==
    \A r \in Reqs :
       pc[r] = "done" =>
          /\ result[r].t = "dict"
          /\ DOMAIN result[r].d = {"statusCode", "headers", "body"}
          /\ result[r].d.statusCode = 200
          /\ result[r].d.headers = [ContentType |-> "application/json"]
          /\ ErrorShape(r) \/ SuccessShape(r)
          /\ ErrorShape(r) <=> "status" \in DOMAIN ResponseBody(r)

C19_Witness ==
    \E r \in Reqs :
       /\ api[r] = "text"
       /\ ErrorShape(r)
       /\ result[r].d.statusCode = 200

\* The other half of C19's case: a success payload.
C19_WitnessSuccess ==
    \E r \in Reqs : SuccessShape(r) /\ Ended(r, "generate", {"ok"})

====
